---- MODULE Spec2Model ----
(***************************************************************************)
(* Model of the markdown page component (src/src/src/components/Page.vue,  *)
(* third component of the file, lines 474-892): the heading indexer        *)
(* generate_index, the heading override of the markdown renderer, the      *)
(* intersection tracker onIntersectionChange and the loader load_file.     *)
(*                                                                         *)
(* Strings are sequences of one-character strings, so that split, join,    *)
(* trim, Number and the regular expression of generate_index are computed  *)
(* as the code computes them.                                              *)
(***************************************************************************)
EXTENDS Integers, Sequences, FiniteSets, TLC

\* ------------------------------------------------------------------ bounds
\* longest document, in lines, of the indexer specification
MaxLines == 4
\* number of page changes of a session
MaxLoads == 2
\* longest working set of the tracker (the code never shrinks it on a load)
MaxVisible == 4
\* clipboard writes and notifications of a session that are not over
MaxCopies == 2
\* recomputations of the layout in a session
MaxResizes == 4

\* ------------------------------------------------------------ string helpers
NL == "\n"
WS == {" ", "\t"}
DigitChars == <<"0", "1", "2", "3", "4", "5", "6", "7", "8", "9">>
\* the value Number() gives for a text that is not a number
NaN == -1

\* Array.prototype.slice(0, n) / String.prototype.slice
Take(s, n) == SubSeq(s, 1, IF n < Len(s) THEN n ELSE Len(s))
Drop(s, n) == SubSeq(s, n + 1, Len(s))

\* length of the longest prefix of s made of characters of set cs
RECURSIVE Run(_, _)
Run(s, cs) ==
  IF s = << >> \/ Head(s) \notin cs THEN 0 ELSE 1 + Run(Tail(s), cs)

RECURSIVE RunBack(_, _)
RunBack(s, cs) ==
  IF s = << >> \/ s[Len(s)] \notin cs THEN 0
  ELSE 1 + RunBack(SubSeq(s, 1, Len(s) - 1), cs)

\* String.prototype.trim
Trim(s) ==
  LET a == Drop(s, Run(s, WS))
  IN  SubSeq(a, 1, Len(a) - RunBack(a, WS))

\* String.prototype.split(sep) for a one-character separator
RECURSIVE Split(_, _)
Split(s, sep) ==
  LET n == Run(s, {c \in {s[i] : i \in 1..Len(s)} : c # sep})
  IN  IF n = Len(s) THEN <<s>>
      ELSE <<Take(s, n)>> \o Split(Drop(s, n + 1), sep)

\* Array.prototype.join(sep) on an array of strings
RECURSIVE JoinStr(_, _)
JoinStr(ss, sep) ==
  IF ss = << >> THEN << >>
  ELSE IF Len(ss) = 1 THEN ss[1]
  ELSE ss[1] \o <<sep>> \o JoinStr(Tail(ss), sep)

\* Number.prototype.toString, decimal
RECURSIVE NatToStr(_)
NatToStr(n) ==
  IF n < 10 THEN <<DigitChars[n + 1]>>
  ELSE NatToStr(n \div 10) \o <<DigitChars[(n % 10) + 1]>>

DigitVal(c) == (CHOOSE i \in 1..10 : DigitChars[i] = c) - 1
IsDigit(c) == \E i \in 1..10 : DigitChars[i] = c

\* Number(str): the empty text is 0, a decimal numeral its value, else NaN
RECURSIVE DigitsVal(_, _)
DigitsVal(s, acc) ==
  IF s = << >> THEN acc ELSE DigitsVal(Tail(s), 10 * acc + DigitVal(Head(s)))

Number(s) ==
  IF \A i \in 1..Len(s) : IsDigit(s[i]) THEN DigitsVal(s, 0) ELSE NaN

\* Array.prototype.map(f) on a sequence
MapNumber(ss) == [i \in 1..Len(ss) |-> Number(ss[i])]
MapToStr(ns) == [i \in 1..Len(ns) |-> NatToStr(ns[i])]

\* ------------------------------------------------------- heading indexer
\* HeadingMatch without the upper limit of six hashes
HeadingMatch_NoLimit(line) ==
  LET h  == Run(line, {"#"})
      r  == Drop(line, h)
      w  == Run(r, WS)
  IN  IF h >= 1 /\ w >= 1
      THEN [ok |-> TRUE, hashes |-> h, rest |-> Drop(r, w)]
      ELSE [ok |-> FALSE, hashes |-> 0, rest |-> << >>]

\* line.match(/^(#{1,6})\s+(.*)/): 1 to 6 hashes, then at least one white
\* space; the groups are the run of hashes and the rest after the white space.
HeadingMatch(line) ==
  LET h  == Run(line, {"#"})
      r  == Drop(line, h)
      w  == Run(r, WS)
  IN  IF h >= 1 /\ h <= 6 /\ w >= 1
      THEN [ok |-> TRUE, hashes |-> h, rest |-> Drop(r, w)]
      ELSE [ok |-> FALSE, hashes |-> 0, rest |-> << >>]

heading_levels_init == <<0, 0, 0, 0, 0, 0>>

\* IndexLine with the reset loop starting one slot too early, at the
\* counter of the heading itself
\* IndexLine that leaves the counters of the deeper levels as they are
IndexLine_NoReset(st, line) ==
  LET match == HeadingMatch(line)
  IN  IF ~match.ok THEN st
      ELSE
        LET level == match.hashes
            title == Trim(match.rest)
            hl == [i \in 1..6 |->
                     IF i = level THEN st.heading_levels[i] + 1
                     ELSE st.heading_levels[i]]
            id == JoinStr(MapToStr(Take(hl, level)), ".")
        IN  [heading_levels |-> hl,
             local_index |-> Append(st.local_index,
                               [id |-> id, level |-> level, title |-> title,
                                is_active |-> FALSE])]

\* IndexLine that joins all six counters into the id
IndexLine_NoSlice(st, line) ==
  LET match == HeadingMatch(line)
  IN  IF ~match.ok THEN st
      ELSE
        LET level == match.hashes
            title == Trim(match.rest)
            hl == [i \in 1..6 |->
                     IF i = level THEN st.heading_levels[i] + 1
                     ELSE IF i > level THEN 0
                     ELSE st.heading_levels[i]]
            id == JoinStr(MapToStr(hl), ".")
        IN  [heading_levels |-> hl,
             local_index |-> Append(st.local_index,
                               [id |-> id, level |-> level, title |-> title,
                                is_active |-> FALSE])]

IndexLine_ResetOwn(st, line) ==
  LET match == HeadingMatch(line)
  IN  IF ~match.ok THEN st
      ELSE
        LET level == match.hashes
            title == Trim(match.rest)
            hl == [i \in 1..6 |->
                     IF i >= level THEN 0 ELSE st.heading_levels[i]]
            id == JoinStr(MapToStr(Take(hl, level)), ".")
        IN  [heading_levels |-> hl,
             local_index |-> Append(st.local_index,
                               [id |-> id, level |-> level, title |-> title,
                                is_active |-> FALSE])]

\* body of lines.forEach in generate_index, for one line; st is the pair of
\* heading_levels and local_index
IndexLine(st, line) ==
  LET match == HeadingMatch(line)
  IN  IF ~match.ok THEN st
      ELSE
        LET level == match.hashes
            title == Trim(match.rest)
            hl == [i \in 1..6 |->
                     IF i = level THEN st.heading_levels[i] + 1
                     ELSE IF i > level THEN 0
                     ELSE st.heading_levels[i]]
            id == JoinStr(MapToStr(Take(hl, level)), ".")
        IN  [heading_levels |-> hl,
             local_index |-> Append(st.local_index,
                               [id |-> id, level |-> level, title |-> title,
                                is_active |-> FALSE])]

RECURSIVE IndexLines(_, _)
IndexLines(st, ls) ==
  IF ls = << >> THEN st ELSE IndexLines(IndexLine(st, Head(ls)), Tail(ls))

generate_index(markdown) ==
  IndexLines([heading_levels |-> heading_levels_init, local_index |-> << >>],
             Split(markdown, NL)).local_index

\* ----------------------------------------------------- markdown renderer
\* Block tokens of marked(text): the parser is the library's; what is kept
\* of it is what decides which lines become heading nodes: an ATX heading is
\* 0 to 3 spaces, 1 to 6 hashes, then white space or the end of the line, its
\* text trimmed and stripped of a closing run of hashes; a line opening a fence
\* (three or more tildes) starts a code block that runs to the closing
\* fence or to the end of the text; any other non-blank line is paragraph
\* text.
AtxMatch(line) ==
  LET sp == Run(line, {" "})
      a  == Drop(line, sp)
      h  == Run(a, {"#"})
      r  == Drop(a, h)
  IN  IF sp <= 3 /\ h >= 1 /\ h <= 6 /\ (r = << >> \/ Head(r) \in WS)
      THEN [ok |-> TRUE, depth |-> h, rest |-> r]
      ELSE [ok |-> FALSE, depth |-> 0, rest |-> << >>]

\* text of a heading token: trimmed, a closing run of hashes removed when it
\* is the whole text or follows a space
AtxText(rest) ==
  LET t == Trim(rest)
      k == RunBack(t, {"#"})
      trimmed == SubSeq(t, 1, Len(t) - k)
  IN  IF k > 0 /\ (trimmed = << >> \/ trimmed[Len(trimmed)] = " ")
      THEN Trim(trimmed) ELSE t

FenceMatch(line) ==
  LET sp == Run(line, {" "})
      a  == Drop(line, sp)
      k  == Run(a, {"~"})
  IN  IF sp <= 3 /\ k >= 3
      THEN [ok |-> TRUE, marks |-> k, info |-> Trim(Drop(a, k))]
      ELSE [ok |-> FALSE, marks |-> 0, info |-> << >>]

\* lexer state: tokens so far and the open fence, if any (0: none)
RECURSIVE LexLines(_, _, _)
LexLines(ls, tokens, fence) ==
  IF ls = << >> THEN tokens
  ELSE
    LET line == Head(ls)
        f == FenceMatch(line)
        h == AtxMatch(line)
    IN  IF fence > 0
        THEN IF f.ok /\ f.marks >= fence /\ f.info = << >>
             THEN LexLines(Tail(ls), tokens, 0)
             ELSE LexLines(Tail(ls), tokens, fence)
        ELSE IF f.ok
        THEN LexLines(Tail(ls),
               Append(tokens, [type |-> "code", depth |-> 0, text |-> << >>,
                               lang |-> f.info]), f.marks)
        ELSE IF h.ok
        THEN LexLines(Tail(ls),
               Append(tokens, [type |-> "heading", depth |-> h.depth,
                               text |-> AtxText(h.rest), lang |-> << >>]), 0)
        ELSE IF Trim(line) = << >>
        THEN LexLines(Tail(ls), tokens, 0)
        ELSE LexLines(Tail(ls),
               Append(tokens, [type |-> "paragraph", depth |-> 0,
                               text |-> line, lang |-> << >>]), 0)

Lex(text) == LexLines(Split(text, NL), << >>, 0)

\* Find returning the last record with the title instead of the first
Find_Last(local_index, text) ==
  IF \E i \in 1..Len(local_index) : local_index[i].title = text
  THEN CHOOSE i \in 1..Len(local_index) :
         /\ local_index[i].title = text
         /\ \A j \in (i + 1)..Len(local_index) : local_index[j].title # text
  ELSE 0

\* local_index.find(item => item.title === text): position of the first
\* record with that title, 0 when there is none
Find(local_index, text) ==
  IF \E i \in 1..Len(local_index) : local_index[i].title = text
  THEN CHOOSE i \in 1..Len(local_index) :
         /\ local_index[i].title = text
         /\ \A j \in 1..(i - 1) : local_index[j].title # text
  ELSE 0

FallbackLevel == 1
FallbackId == <<"1">>

\* renderer.heading(elem): the element emitted for one heading node
renderer_heading(local_index, elem) ==
  LET text == elem.text
      heading == Find(local_index, text)
      level == IF heading # 0 THEN local_index[heading].level
               ELSE FallbackLevel
      id == IF heading # 0 THEN local_index[heading].id ELSE FallbackId
  IN  [tag |-> "h", level |-> level, id |-> id, text |-> text,
       lang |-> << >>]

\* marked(text, { renderer }): one element per block token
RenderToken(local_index, tok) ==
  IF tok.type = "heading" THEN renderer_heading(local_index, tok)
  ELSE IF tok.type = "code"
  THEN [tag |-> "pre", level |-> 0, id |-> << >>, text |-> << >>,
        lang |-> tok.lang]
  ELSE [tag |-> "p", level |-> 0, id |-> << >>, text |-> tok.text,
        lang |-> << >>]

marked(text, local_index) ==
  LET toks == Lex(text)
  IN  [i \in 1..Len(toks) |-> RenderToken(local_index, toks[i])]

\* the heading elements of a rendered text, in document order
RECURSIVE SelectTag(_, _)
SelectTag(html, tag) ==
  IF html = << >> THEN << >>
  ELSE IF Head(html).tag = tag
       THEN <<Head(html)>> \o SelectTag(Tail(html), tag)
       ELSE SelectTag(Tail(html), tag)

Headings(html) == SelectTag(html, "h")

\* --------------------------------------------------------- documents
\* the lines documents of the indexer specification are made of
Lines ==
  { <<"#", " ", "A">>,                       \* # A
    <<"#", "#", " ", "B">>,                  \* ## B
    <<"#", "#", " ", "C">>,                  \* ## C
    <<"#", " ", "D">>,                       \* # D
    <<"#", "#", "#", "#", "#", "#", " ", "F">>,       \* level 6
    <<"#", "#", "#", "#", "#", "#", "#", " ", "G">>,  \* seven hashes
    <<" ", "#", " ", "X">>,                  \* indented heading
    <<"~", "~", "~">>,                       \* fence
    <<"#", " ", " ", "A", " ">> }            \* title A again, padded

RECURSIVE SeqsUpTo(_, _)
SeqsUpTo(S, n) ==
  IF n = 0 THEN {<< >>}
  ELSE LET R == SeqsUpTo(S, n - 1)
       IN  R \cup {Append(r, x) : r \in {q \in R : Len(q) = n - 1}, x \in S}

DocLines == SeqsUpTo(Lines, MaxLines)

\* ---------------------------------------------------------- the tracker
\* aIdParts[i] || 0: a missing part, NaN and 0 all count as 0
PartOr0(parts, i) ==
  IF i > Len(parts) \/ parts[i] = NaN THEN 0 ELSE parts[i]

Max(a, b) == IF a > b THEN a ELSE b

\* the comparison function handed to visible_entries.sort, on two ids
RECURSIVE CompareFrom(_, _, _)
CompareFrom(aIdParts, bIdParts, i) ==
  IF i > Max(Len(aIdParts), Len(bIdParts)) THEN 0
  ELSE IF PartOr0(aIdParts, i) < PartOr0(bIdParts, i) THEN -1
  ELSE IF PartOr0(aIdParts, i) > PartOr0(bIdParts, i) THEN 1
  ELSE CompareFrom(aIdParts, bIdParts, i + 1)

\* CompareIds looking at the first component only
CompareIds_FirstPart(a, b) ==
  LET x == PartOr0(MapNumber(Split(a, ".")), 1)
      y == PartOr0(MapNumber(Split(b, ".")), 1)
  IN  IF x < y THEN -1 ELSE IF x > y THEN 1 ELSE 0

CompareIds(a, b) ==
  CompareFrom(MapNumber(Split(a, ".")), MapNumber(Split(b, ".")), 1)

\* Array.prototype.sort with that comparison: stable, ascending
RECURSIVE InsertSorted(_, _)
InsertSorted(sorted, e) ==
  IF sorted = << >> THEN <<e>>
  ELSE IF CompareIds(e.id, sorted[Len(sorted)].id) >= 0
       THEN Append(sorted, e)
       ELSE Append(InsertSorted(SubSeq(sorted, 1, Len(sorted) - 1), e),
                   sorted[Len(sorted)])

RECURSIVE SortEntries(_)
SortEntries(es) ==
  IF es = << >> THEN << >>
  ELSE InsertSorted(SortEntries(SubSeq(es, 1, Len(es) - 1)), es[Len(es)])

\* Array.prototype.filter(e => e.target.id !== id)
RECURSIVE FilterOutId(_, _)
FilterOutId(es, id) ==
  IF es = << >> THEN << >>
  ELSE IF Head(es).id # id
       THEN <<Head(es)>> \o FilterOutId(Tail(es), id)
       ELSE FilterOutId(Tail(es), id)

\* body of entries.forEach in onIntersectionChange, for one entry
TrackEntry(visible, entry) ==
  IF entry.isIntersecting
  THEN Append(visible, [el |-> entry.el, id |-> entry.id])
  ELSE FilterOutId(visible, entry.id)

RECURSIVE TrackEntries(_, _)
TrackEntries(visible, entries) ==
  IF entries = << >> THEN visible
  ELSE TrackEntries(TrackEntry(visible, Head(entries)), Tail(entries))

\* MarkActive that sets the flag of the matching record and leaves the
\* flags of the others as they are
MarkActive_KeepOthers(idx, id) ==
  [i \in 1..Len(idx) |->
     [idx[i] EXCEPT !.is_active = (idx[i].is_active \/ idx[i].id = id)]]

\* index.value.forEach(item => item.is_active = active_id === item.id)
MarkActive(idx, id) ==
  [i \in 1..Len(idx) |-> [idx[i] EXCEPT !.is_active = (idx[i].id = id)]]

\* ResolveActive that clears every flag when nothing intersects
ResolveActive_ClearOnEmpty(idx, sorted) ==
  IF sorted = << >>
  THEN [i \in 1..Len(idx) |-> [idx[i] EXCEPT !.is_active = FALSE]]
  ELSE MarkActive(idx, sorted[1].id)

\* the end of onIntersectionChange: active_entry = sorted[0] || null;
\* without an active entry the function returns, else it marks the index
ResolveActive(idx, sorted) ==
  IF sorted = << >> THEN idx ELSE MarkActive(idx, sorted[1].id)

\* ------------------------------------------------- code block enhancer
LanguagePrefix == "language-"
HljsClass == [prefix |-> "", name |-> <<"h", "l", "j", "s">>]
PlainText == <<"P", "l", "a", "i", "n", " ", "T", "e", "x", "t">>

\* position of the first class starting with "language-", 0 if none
FindLanguageClass(classes) ==
  IF \E i \in 1..Len(classes) : classes[i].prefix = LanguagePrefix
  THEN CHOOSE i \in 1..Len(classes) :
         /\ classes[i].prefix = LanguagePrefix
         /\ \A j \in 1..(i - 1) : classes[j].prefix # LanguagePrefix
  ELSE 0

AddClass(classes, c) ==
  IF \E i \in 1..Len(classes) : classes[i] = c THEN classes
  ELSE Append(classes, c)

\* hljs.highlightElement(block): an element already highlighted is left
\* alone; otherwise the classes hljs and language-<name> are added, <name>
\* being the declared language or, without one, the detected language
\* (detected = << >> when the detection finds none)
Highlight(block, detected) ==
  IF block.highlighted THEN block
  ELSE
    LET k == FindLanguageClass(block.classes)
        language == IF k # 0 THEN block.classes[k].name ELSE detected
        withHljs == AddClass(block.classes, HljsClass)
    IN  [block EXCEPT
           !.highlighted = TRUE,
           !.classes = IF language = << >> THEN withHljs
                       ELSE AddClass(withHljs, [prefix |-> LanguagePrefix,
                                                name |-> language])]

\* EnhanceBlock inserting a header bar without looking for an existing one
EnhanceBlock_AlwaysInsert(block, detected) ==
  LET b == Highlight(block, detected)
      k == FindLanguageClass(b.classes)
      language == IF k # 0 THEN b.classes[k].name ELSE PlainText
  IN  [b EXCEPT !.bars = Append(b.bars, language)]

\* body of code_blocks.forEach in enhance_code_blocks, for one block
EnhanceBlock(block, detected) ==
  LET b == Highlight(block, detected)
      k == FindLanguageClass(b.classes)
      language == IF k # 0 THEN b.classes[k].name ELSE PlainText
  IN  IF b.bars = << >> THEN [b EXCEPT !.bars = <<language>>] ELSE b

\* enhance_code_blocks called before the rendered text is in the document:
\* its query finds no block of it
enhance_code_blocks_BeforeAttach(elements, detected) == elements

enhance_code_blocks(elements, detected) ==
  [i \in 1..Len(elements) |->
     IF elements[i].tag = "pre" THEN EnhanceBlock(elements[i], detected)
     ELSE elements[i]]

\* ------------------------------------------------------------- the DOM
\* v-html: the elements created from a rendered text; gen numbers the
\* assignments of innerHTML, so that <<gen, k>> is the element identity
Elements(rendered, gen) ==
  [k \in 1..Len(rendered) |->
     [el |-> <<gen, k>>, tag |-> rendered[k].tag, level |-> rendered[k].level,
      id |-> rendered[k].id, text |-> rendered[k].text,
      classes |-> IF rendered[k].tag = "pre" /\ rendered[k].lang # << >>
                  THEN <<[prefix |-> LanguagePrefix,
                          name |-> rendered[k].lang]>>
                  ELSE << >>,
      highlighted |-> FALSE, bars |-> << >>]]

\* headings.forEach(heading => observer.observe(heading))
ObserveAll(elements) ==
  {[el |-> elements[k].el, id |-> elements[k].id, last |-> "none"] :
     k \in {j \in 1..Len(elements) : elements[j].tag = "h"}}

\* ------------------------------------------------------------ the server
Pages == {"p1", "p2"}

\* the pages of the sessions that use the controls of the view
UiPages == {"p2", "p3"}

\* the text served for a page: p1 is "# A\n## B\n## C"; p2 is
\* " # X\n## B\n # X\n~~~js", whose indented headings the indexer does not
\* see
Content(p) ==
  IF p = "p1"
  THEN JoinStr(<< <<"#", " ", "A">>, <<"#", "#", " ", "B">>,
                  <<"#", "#", " ", "C">> >>, NL)
  ELSE IF p = "p2"
  THEN JoinStr(<< <<" ", "#", " ", "X">>, <<"#", "#", " ", "B">>,
                  <<" ", "#", " ", "X">>, <<"~", "~", "~", "j", "s">> >>, NL)
  ELSE JoinStr(<< <<"#", " ", "A">>, <<"~", "~", "~">>,
                  <<"#", "#", " ", "B">> >>, NL)

\* err after a response whose status is not ok, after a rejected fetch and
\* after a rejected res.text()
FetchFailedMessage == "Error: Failed to fetch the file"
NetworkErrorMessage == "Error: Failed to fetch"
BodyErrorMessage == "Error: network error"

\* import "highlight.js/styles/github.css"
GithubCss == "github.css"

\* ------------------------------------------------------------- state
VARIABLES
  \* generate_index and the render that follows it, on one text
  markdown,        \* the text handed to generate_index
  lines,           \* markdown.split("\n")
  line_no,         \* lines of the forEach already visited
  heading_levels,  \* the six counters
  local_index,     \* records pushed so far
  html,            \* marked(text, { renderer }) once rendered
  ipc,             \* "scan", then "done" once rendered
  \* the component
  page,               \* the page prop, "" while undefined
  file_content,       \* ref file_content
  rendered_markdown,  \* ref rendered_markdown, a sequence of html blocks
  is_loading,         \* ref is_loading
  err,                \* ref err
  index,              \* ref index
  loads,              \* the calls of load_file: page fetched and position
  mounted,            \* the component is mounted
  markdown_container, \* template ref: "null" or "div"
  dom,                \* the elements inside the container
  renders,            \* number of innerHTML assignments so far
  observed,           \* targets of the observer, with the last report
  visible_entries,    \* the working set of onIntersectionChange
  active_id,          \* active_id of the last resolution, << >> if none
  \* the platform
  has_observer,       \* the platform provides IntersectionObserver
  has_wrap,           \* an ancestor of the container matches
                      \* ".el-scrollbar__wrap"
  has_clipboard,      \* navigator.clipboard is defined
  \* what the handlers of the view have done
  copy_pending,       \* clipboard writes that have not settled yet
  last_write,         \* how the last settled write ended
  notifications,      \* the notifications on display, oldest first
  unhandled,          \* rejections and exceptions no handler caught
  scroll_req,         \* id of the last call of scroll_to
  scroll_target,      \* top of the last scrollTo of the wrap, -1: none
  \* the shell
  is_collapsed,       \* the index panel is collapsed
  overlap,            \* right edge of the content panel minus left edge
                      \* of the index panel, as last measured
  resizes,            \* recomputations so far
  prefers_dark,       \* the colour scheme the platform prefers
  stylesheets         \* the stylesheets of highlight.js in the document

pvars == <<has_observer, has_wrap, has_clipboard>>

uvars == <<copy_pending, last_write, notifications, unhandled, scroll_req,
           scroll_target>>

shvars == <<is_collapsed, overlap, resizes, prefers_dark, stylesheets>>

\* the variables no step of generate_index or of a load changes
xvars == <<pvars, uvars, shvars>>

ixvars == <<markdown, lines, line_no, heading_levels, local_index, html, ipc>>

ivars == <<ixvars, xvars>>

refs == <<file_content, rendered_markdown, is_loading, err, index>>

domvars == <<markdown_container, dom, renders, observed>>

svars == <<page, refs, loads, mounted, domvars, visible_entries, active_id,
           xvars>>

vars == <<ivars, svars>>

\* the component right after setup and onMounted, no page selected yet
InitComponent ==
  /\ page = ""
  /\ file_content = << >>
  /\ rendered_markdown = << >>
  /\ is_loading = FALSE
  /\ err = ""
  /\ index = << >>
  /\ loads = << >>
  /\ mounted = TRUE
  /\ markdown_container = "null"
  /\ dom = << >>
  /\ renders = 0
  /\ observed = {}
  /\ visible_entries = << >>
  /\ active_id = << >>
  /\ copy_pending = 0
  /\ last_write = "none"
  /\ notifications = << >>
  /\ unhandled = 0
  /\ scroll_req = << >>
  /\ scroll_target = -1
  /\ is_collapsed = FALSE
  /\ overlap = 0
  /\ resizes = 0
  /\ prefers_dark = FALSE
  /\ stylesheets = <<GithubCss>>

\* --------------------------------------- specification of the indexer
InitIndexer ==
  /\ \E ls \in DocLines : markdown = JoinStr(ls, NL)
  /\ lines = Split(markdown, NL)
  /\ line_no = 0
  /\ heading_levels = heading_levels_init
  /\ local_index = << >>
  /\ html = << >>
  /\ ipc = "scan"
  /\ InitComponent
  /\ has_observer = TRUE
  /\ has_wrap = TRUE
  /\ has_clipboard = TRUE

\* the fence that is open after the first n lines, as the renderer sees
\* it: the number of its marks, 0 when none is open
RECURSIVE OpenFence(_, _)
OpenFence(ls, n) ==
  IF n = 0 THEN 0
  ELSE LET prev == OpenFence(ls, n - 1)
           f == FenceMatch(ls[n])
       IN  IF prev > 0
           THEN IF f.ok /\ f.marks >= prev /\ f.info = << >> THEN 0
                ELSE prev
           ELSE IF f.ok THEN f.marks ELSE 0

\* ScanLine that passes over the lines inside a code fence
ScanLine_SkipFenced ==
  /\ ipc = "scan"
  /\ line_no < Len(lines)
  /\ LET st == IF OpenFence(lines, line_no) > 0
               THEN [heading_levels |-> heading_levels,
                     local_index |-> local_index]
               ELSE IndexLine([heading_levels |-> heading_levels,
                               local_index |-> local_index],
                              lines[line_no + 1])
     IN  /\ heading_levels' = st.heading_levels
         /\ local_index' = st.local_index
  /\ line_no' = line_no + 1
  /\ UNCHANGED <<markdown, lines, html, ipc, svars>>

\* one iteration of lines.forEach
ScanLine ==
  /\ ipc = "scan"
  /\ line_no < Len(lines)
  /\ LET st == IndexLine([heading_levels |-> heading_levels,
                          local_index |-> local_index], lines[line_no + 1])
     IN  /\ heading_levels' = st.heading_levels
         /\ local_index' = st.local_index
  /\ line_no' = line_no + 1
  /\ UNCHANGED <<markdown, lines, html, ipc, svars>>

\* generate_index returns; the text is rendered with the index it built
RenderText ==
  /\ ipc = "scan"
  /\ line_no = Len(lines)
  /\ html' = marked(markdown, local_index)
  /\ ipc' = "done"
  /\ UNCHANGED <<markdown, lines, line_no, heading_levels, local_index,
                 svars>>

NextIndexer == ScanLine \/ RenderText

SpecIndexer == InitIndexer /\ [][NextIndexer]_vars

\* ------------------------------------- specification of the component
Init ==
  /\ markdown = << >>
  /\ lines = << >>
  /\ line_no = 0
  /\ heading_levels = heading_levels_init
  /\ local_index = << >>
  /\ html = << >>
  /\ ipc = "idle"
  /\ InitComponent
  /\ has_observer \in BOOLEAN
  /\ has_wrap = TRUE
  /\ has_clipboard = TRUE

Loading(i) == loads[i].pc \in {"fetch", "text"}

\* the render flush after the refs changed: v-if="file_content" mounts or
\* unmounts the container, v-html replaces its elements when the rendered
\* text changed, and the watchEffect of onMounted runs again when the
\* template ref changed (disconnect, then observe the headings found).
\* Without IntersectionObserver the constructor call in onMounted throws
\* before the watchEffect is registered: nothing is ever observed.

\* Flush in which the effect is registered without an observer and its
\* exception ends the flush
Flush_ObserverThrows(new_content, new_rendered) ==
  LET same == [container |-> markdown_container, dom |-> dom,
               renders |-> renders, observed |-> observed]
      fresh == Elements(new_rendered, renders + 1)
  IN  IF ~mounted \/ ~has_observer THEN same
      ELSE IF new_content # << >> /\ markdown_container = "null"
      THEN [container |-> "div", dom |-> fresh, renders |-> renders + 1,
            observed |-> ObserveAll(fresh)]
      ELSE IF new_content # << >> /\ new_rendered # rendered_markdown
      THEN [container |-> "div", dom |-> fresh, renders |-> renders + 1,
            observed |-> observed]
      ELSE IF new_content = << >> /\ markdown_container = "div"
      THEN [container |-> "null", dom |-> << >>, renders |-> renders,
            observed |-> {}]
      ELSE same

Flush(new_content, new_rendered) ==
  LET same == [container |-> markdown_container, dom |-> dom,
               renders |-> renders, observed |-> observed]
      fresh == Elements(new_rendered, renders + 1)
  IN  IF ~mounted THEN same
      ELSE IF new_content # << >> /\ markdown_container = "null"
      THEN [container |-> "div", dom |-> fresh, renders |-> renders + 1,
            observed |-> IF has_observer THEN ObserveAll(fresh) ELSE {}]
      ELSE IF new_content # << >> /\ new_rendered # rendered_markdown
      THEN [container |-> "div", dom |-> fresh, renders |-> renders + 1,
            observed |-> observed]
      ELSE IF new_content = << >> /\ markdown_container = "div"
      THEN [container |-> "null", dom |-> << >>, renders |-> renders,
            observed |-> {}]
      ELSE same

\* the parent sets the page prop; the watchEffect on page calls load_file
\* when the page is set: load_file up to its first await, then the flush
SelectPage(p) ==
  /\ mounted
  /\ p # page
  /\ page' = p
  /\ IF p = ""
     THEN UNCHANGED <<refs, loads, domvars>>
     ELSE /\ Len(loads) < MaxLoads
          /\ is_loading' = TRUE
          /\ err' = ""
          /\ file_content' = << >>
          /\ rendered_markdown' = << >>
          /\ loads' = Append(loads, [page |-> p, pc |-> "fetch"])
          /\ LET f == Flush(<< >>, << >>)
             IN  /\ markdown_container' = f.container
                 /\ dom' = f.dom
                 /\ renders' = f.renders
                 /\ observed' = f.observed
          /\ UNCHANGED index
  /\ UNCHANGED <<ivars, mounted, visible_entries, active_id>>

\* fetch resolves with a success status: load_file goes on to res.text()
FetchOk(i) ==
  /\ loads[i].pc = "fetch"
  /\ loads' = [loads EXCEPT ![i].pc = "text"]
  /\ UNCHANGED <<ivars, page, refs, mounted, domvars, visible_entries,
                 active_id>>

\* load_file from a rejected await to its end: catch, then finally
\* Fail that starts the load of the same page again
Fail_Retry(i, message) ==
  /\ err' = message
  /\ is_loading' = (Len(loads) < MaxLoads)
  /\ loads' = IF Len(loads) < MaxLoads
              THEN Append([loads EXCEPT ![i].pc = "failed"],
                          [page |-> loads[i].page, pc |-> "fetch"])
              ELSE [loads EXCEPT ![i].pc = "failed"]
  /\ UNCHANGED <<ivars, page, file_content, rendered_markdown, index,
                 mounted, domvars, visible_entries, active_id>>

Fail(i, message) ==
  /\ err' = message
  /\ is_loading' = FALSE
  /\ loads' = [loads EXCEPT ![i].pc = "failed"]
  /\ UNCHANGED <<ivars, page, file_content, rendered_markdown, index,
                 mounted, domvars, visible_entries, active_id>>

\* fetch rejects (network failure) or resolves with a status that is not ok
FetchFail(i, message) ==
  /\ loads[i].pc = "fetch"
  /\ Fail(i, message)

\* res.text() rejects
TextFail(i) ==
  /\ loads[i].pc = "text"
  /\ Fail(i, BodyErrorMessage)

\* res.text() resolves: load_file from there to its end (index, render,
\* nextTick with the flush, enhance_code_blocks, finally)
TextOk(i, detected) ==
  /\ loads[i].pc = "text"
  /\ LET text == Content(loads[i].page)
         idx == generate_index(text)
         rendered == marked(text, idx)
     IN  /\ file_content' = text
         /\ index' = idx
         /\ rendered_markdown' = rendered
         /\ LET f == Flush(text, rendered)
            IN  /\ markdown_container' = f.container
                /\ dom' = enhance_code_blocks(f.dom, detected)
                /\ renders' = f.renders
                /\ observed' = f.observed
  /\ err' = err
  /\ is_loading' = FALSE
  /\ loads' = [loads EXCEPT ![i].pc = "ok"]
  /\ UNCHANGED <<ivars, page, mounted, visible_entries, active_id>>

\* onBeforeUnmount, and the unmount of the component that follows it
Unmount ==
  /\ mounted
  /\ mounted' = FALSE
  /\ markdown_container' = "null"
  /\ dom' = << >>
  /\ observed' = {}
  /\ UNCHANGED <<ivars, page, refs, loads, renders, visible_entries,
                 active_id>>

\* a target is in the document while its element is in the container
Attached(t) ==
  /\ markdown_container = "div"
  /\ \E k \in 1..Len(dom) : dom[k].el = t.el

\* the values of isIntersecting one delivery of the observer can carry for
\* target t: the first report of a target says whether it intersects (half
\* of it is in view, threshold 0.5), every later report says that this
\* changed; a target out of the document does not intersect
Reports(t) ==
  IF t.last = "none" THEN IF Attached(t) THEN {TRUE, FALSE} ELSE {FALSE}
  ELSE IF t.last = "in" THEN {FALSE}
  ELSE IF Attached(t) THEN {TRUE} ELSE {}

\* the targets of a set in the order the observer delivers them
RECURSIVE InOrder(_)
InOrder(ts) ==
  IF ts = {} THEN << >>
  ELSE LET t == CHOOSE x \in ts :
                  \A y \in ts :
                    \/ x.el[1] < y.el[1]
                    \/ (x.el[1] = y.el[1] /\ x.el[2] <= y.el[2])
       IN  <<t>> \o InOrder(ts \ {t})

\* the observer delivers entries: onIntersectionChange(entries).  S is the
\* set of targets reported and r the value of isIntersecting of each; the
\* first delivery after observe carries every target.
onIntersectionChange(S, r) ==
  LET ordered == InOrder(S)
      entries == [k \in 1..Len(ordered) |->
                    [el |-> ordered[k].el, id |-> ordered[k].id,
                     isIntersecting |-> r[ordered[k]]]]
      sorted_visible_entries == SortEntries(TrackEntries(visible_entries,
                                                         entries))
  IN  /\ Len(sorted_visible_entries) <= MaxVisible
      /\ visible_entries' = sorted_visible_entries
      /\ observed' = (observed \ S) \cup
                       {[t EXCEPT !.last = IF r[t] THEN "in" ELSE "out"] :
                          t \in S}
      /\ active_id' = IF sorted_visible_entries = << >> THEN active_id
                      ELSE sorted_visible_entries[1].id
      /\ index' = ResolveActive(index, sorted_visible_entries)
      /\ UNCHANGED <<ivars, page, file_content, rendered_markdown,
                     is_loading, err, loads, mounted, markdown_container,
                     dom, renders>>

IntersectionChange ==
  /\ mounted
  /\ \E S \in SUBSET observed :
       /\ S # {}
       /\ \A t \in observed : t.last = "none" => t \in S
       /\ \A t \in S : Reports(t) # {}
       /\ \E r \in [S -> BOOLEAN] :
            /\ \A t \in S : r[t] \in Reports(t)
            /\ onIntersectionChange(S, r)

Next ==
  \/ \E p \in Pages \cup {""} : SelectPage(p)
  \/ \E i \in 1..Len(loads) : FetchOk(i)
  \/ \E i \in 1..Len(loads) :
       \E m \in {FetchFailedMessage, NetworkErrorMessage} : FetchFail(i, m)
  \/ \E i \in 1..Len(loads) : TextFail(i)
  \/ \E i \in 1..Len(loads) :
       \E detected \in {<< >>, <<"i", "n", "i">>} : TextOk(i, detected)
  \/ IntersectionChange
  \/ Unmount

Spec == Init /\ [][Next]_vars

\* ------------------------------------------ the controls of the view
\* the component on a platform with IntersectionObserver; the class of the
\* wrap depends on the namespace Element Plus is set up with, and
\* navigator.clipboard on the context the page is served in
InitUi ==
  /\ markdown = << >>
  /\ lines = << >>
  /\ line_no = 0
  /\ heading_levels = heading_levels_init
  /\ local_index = << >>
  /\ html = << >>
  /\ ipc = "idle"
  /\ InitComponent
  /\ has_observer = TRUE
  /\ has_wrap \in BOOLEAN
  /\ has_clipboard \in BOOLEAN

SuccessNotification == [type |-> "success", title |-> "Copied!"]
ErrorNotification == [type |-> "error", title |-> "Error"]

\* the click handler of the copy button of code block k: the call of
\* navigator.clipboard.writeText.  Without navigator.clipboard the
\* expression throws in the handler, outside the promise chain.
CopyClick(k) ==
  /\ mounted
  /\ markdown_container = "div"
  /\ k \in 1..Len(dom)
  /\ dom[k].tag = "pre"
  /\ dom[k].bars # << >>
  /\ copy_pending + Len(notifications) + unhandled < MaxCopies
  /\ IF has_clipboard
     THEN copy_pending' = copy_pending + 1 /\ unhandled' = unhandled
     ELSE copy_pending' = copy_pending /\ unhandled' = unhandled + 1
  /\ UNCHANGED <<ixvars, page, refs, loads, mounted, domvars,
                 visible_entries, active_id, pvars, last_write,
                 notifications, scroll_req, scroll_target, shvars>>

\* the promise of writeText settles and the handler chained to it runs;
\* WriteSettled without the catch handler: a rejection stays unhandled
WriteSettled_NoCatch(ok) ==
  /\ copy_pending > 0
  /\ copy_pending' = copy_pending - 1
  /\ last_write' = IF ok THEN "resolved" ELSE "rejected"
  /\ notifications' = IF ok THEN Append(notifications, SuccessNotification)
                      ELSE notifications
  /\ unhandled' = IF ok THEN unhandled ELSE unhandled + 1
  /\ UNCHANGED <<ixvars, page, refs, loads, mounted, domvars,
                 visible_entries, active_id, pvars, scroll_req,
                 scroll_target, shvars>>

\* the promise of writeText settles: then(...) shows the success
\* notification, catch(...) the error notification
WriteSettled(ok) ==
  /\ copy_pending > 0
  /\ copy_pending' = copy_pending - 1
  /\ last_write' = IF ok THEN "resolved" ELSE "rejected"
  /\ notifications' = Append(notifications,
                             IF ok THEN SuccessNotification
                             ELSE ErrorNotification)
  /\ UNCHANGED <<ixvars, page, refs, loads, mounted, domvars,
                 visible_entries, active_id, pvars, unhandled, scroll_req,
                 scroll_target, shvars>>

\* duration: 3000: the oldest notification closes
NotificationClose ==
  /\ notifications # << >>
  /\ notifications' = Tail(notifications)
  /\ UNCHANGED <<ixvars, page, refs, loads, mounted, domvars,
                 visible_entries, active_id, pvars, copy_pending,
                 last_write, unhandled, scroll_req, scroll_target, shvars>>

\* markdown_container.value.querySelector('[id="..."]'): position of the
\* first element with the id, 0 if none
QueryId(elements, id) ==
  IF \E k \in 1..Len(elements) : elements[k].id = id
  THEN CHOOSE k \in 1..Len(elements) :
         /\ elements[k].id = id
         /\ \A j \in 1..(k - 1) : elements[j].id # id
  ELSE 0

\* parentElement.offsetTop, and target.offsetTop of element k: the elements
\* of the container follow each other from the top of the wrap, one unit
\* each
WrapOffsetTop == 1
OffsetTop(k) == WrapOffsetTop + (k - 1)

\* scroll_to that takes the offset of the target as the top
scroll_to_NoWrapOffset(id) ==
  /\ mounted
  /\ scroll_req' = id
  /\ scroll_target' =
       IF markdown_container = "null" THEN scroll_target
       ELSE LET k == QueryId(dom, id)
            IN  IF k = 0 \/ ~has_wrap THEN scroll_target
                ELSE OffsetTop(k)
  /\ UNCHANGED <<ixvars, page, refs, loads, mounted, domvars,
                 visible_entries, active_id, pvars, copy_pending,
                 last_write, notifications, unhandled, shvars>>

\* scroll_to(id), called by a click on a line of the index card
scroll_to(id) ==
  /\ mounted
  /\ scroll_req' = id
  /\ scroll_target' =
       IF markdown_container = "null" THEN scroll_target
       ELSE LET k == QueryId(dom, id)
            IN  IF k = 0 \/ ~has_wrap THEN scroll_target
                ELSE OffsetTop(k) - WrapOffsetTop
  /\ UNCHANGED <<ixvars, page, refs, loads, mounted, domvars,
                 visible_entries, active_id, pvars, copy_pending,
                 last_write, notifications, unhandled, shvars>>

\* a session of one load in which the controls are used
NextUi ==
  \/ \E p \in UiPages : loads = << >> /\ SelectPage(p)
  \/ \E i \in 1..Len(loads) : FetchOk(i)
  \/ \E i \in 1..Len(loads) : FetchFail(i, FetchFailedMessage)
  \/ \E i \in 1..Len(loads) : TextFail(i)
  \/ \E i \in 1..Len(loads) :
       \E detected \in {<< >>, <<"i", "n", "i">>} : TextOk(i, detected)
  \/ \E k \in 1..Len(dom) : CopyClick(k)
  \/ \E ok \in BOOLEAN : WriteSettled(ok)
  \/ NotificationClose
  \/ \E i \in 1..Len(index) : scroll_to(index[i].id)

SpecUi == InitUi /\ [][NextUi]_vars

\* ------------------------------------------------------------ the shell
\* the margins of the collapse policy, in units of the measured overlap
OverlapMargin == 1
ClearanceMargin == 2

\* the values a measurement can give
Overlaps == (0 - ClearanceMargin - 2)..(OverlapMargin + 2)

\* Collapsed that expands as soon as the overlap is within the margin
Collapsed_NoBand(was, o) == o > OverlapMargin

\* the policy: collapse when the content panel reaches over the left edge
\* of the index panel by more than the overlap margin, expand when the
\* index panel clears it by more than the clearance margin, else keep
Collapsed(was, o) ==
  IF o > OverlapMargin THEN TRUE
  ELSE IF 0 - o > ClearanceMargin THEN FALSE
  ELSE was

\* a recomputation, at mount and on every resize of the viewport
Resize(o) ==
  /\ resizes < MaxResizes
  /\ resizes' = resizes + 1
  /\ overlap' = o
  /\ is_collapsed' = Collapsed(is_collapsed, o)
  /\ UNCHANGED <<ixvars, page, refs, loads, mounted, domvars,
                 visible_entries, active_id, pvars, uvars, prefers_dark,
                 stylesheets>>

\* the user toggles the panel
Toggle ==
  /\ is_collapsed' = ~is_collapsed
  /\ UNCHANGED <<ixvars, page, refs, loads, mounted, domvars,
                 visible_entries, active_id, pvars, uvars, overlap,
                 resizes, prefers_dark, stylesheets>>

\* the platform changes its colour scheme: the stylesheet is imported
\* statically and nothing listens to the change
PreferenceChange ==
  /\ prefers_dark' = ~prefers_dark
  /\ UNCHANGED <<ixvars, page, refs, loads, mounted, domvars,
                 visible_entries, active_id, pvars, uvars, is_collapsed,
                 overlap, resizes, stylesheets>>

NextShell ==
  \/ \E o \in Overlaps : Resize(o)
  \/ Toggle
  \/ PreferenceChange

InitShell ==
  /\ markdown = << >>
  /\ lines = << >>
  /\ line_no = 0
  /\ heading_levels = heading_levels_init
  /\ local_index = << >>
  /\ html = << >>
  /\ ipc = "idle"
  /\ InitComponent
  /\ has_observer = TRUE
  /\ has_wrap = TRUE
  /\ has_clipboard = TRUE

SpecShell == InitShell /\ [][NextShell]_vars


\* ================================================================ claims
Str_A == <<"A">>
Str_B == <<"B">>
Str_C == <<"C">>
Str_D == <<"D">>
Id_1 == <<"1">>
Id_1_1 == <<"1", ".", "1">>
Id_1_2 == <<"1", ".", "2">>
Id_2 == <<"2">>

\* the text "# A\n## B\n## C\n# D"
ExampleText ==
  JoinStr(<< <<"#", " ", "A">>, <<"#", "#", " ", "B">>,
             <<"#", "#", " ", "C">>, <<"#", " ", "D">> >>, NL)

\* line starts with exactly d hashes, 1 <= d <= 6, followed by white space
IsHeadingLine(line, d) ==
  /\ d \in 1..6
  /\ Len(line) > d
  /\ \A i \in 1..d : line[i] = "#"
  /\ line[d + 1] \in WS

HeadingLine(line) == \E d \in 1..6 : IsHeadingLine(line, d)
DepthOf(line) == CHOOSE d \in 1..6 : IsHeadingLine(line, d)

ScanDone == line_no = Len(lines)

\* ---- C1
C1_Step ==
  (line_no' = line_no + 1) =>
    LET line == lines[line_no + 1]
    IN  IF HeadingLine(line)
        THEN LET d == DepthOf(line)
                 rec == local_index'[Len(local_index')]
             IN  /\ Len(local_index') = Len(local_index) + 1
                 /\ SubSeq(local_index', 1, Len(local_index)) = local_index
                 /\ rec.level = d
                 /\ rec.title = Trim(Drop(line, d))
                 /\ heading_levels'[d] = heading_levels[d] + 1
                 /\ \A i \in 1..6 :
                      /\ i > d => heading_levels'[i] = 0
                      /\ i < d => heading_levels'[i] = heading_levels[i]
                 /\ Len(Split(rec.id, ".")) = d
                 /\ \A i \in 1..d :
                      Split(rec.id, ".")[i] = NatToStr(heading_levels'[i])
        ELSE /\ local_index' = local_index
             /\ heading_levels' = heading_levels

C1_Final ==
  /\ (\A i \in 1..line_no : ~HeadingLine(lines[i])) => local_index = << >>
  /\ (markdown = ExampleText /\ ScanDone) =>
       /\ Len(local_index) = 4
       /\ [i \in 1..4 |-> local_index[i].id]
            = <<Id_1, Id_1_1, Id_1_2, Id_2>>
       /\ [i \in 1..4 |-> local_index[i].level] = <<1, 2, 2, 1>>
       /\ [i \in 1..4 |-> local_index[i].title]
            = <<Str_A, Str_B, Str_C, Str_D>>

\* C1: generate_index visits the lines in order; a line starting with 1 to
\* 6 hashes followed by white space appends one record (level = number of
\* hashes, title = trimmed rest, id = counters 1..level joined with dots
\* after incrementing the counter of the level and zeroing the deeper
\* ones); any other line appends nothing; a text without heading lines has
\* an empty index and "# A", "## B", "## C", "# D" has ids 1, 1.1, 1.2, 2.
C1_Indexer == []C1_Final /\ [][C1_Step]_vars

C1_Witness ==
  /\ markdown = ExampleText
  /\ ipc = "done"
  /\ Len(local_index) = 4
  /\ local_index[3].id = Id_1_2

\* ---- C2
\* the heading lines among the first n lines, in order
RECURSIVE HeadingLinesOf(_, _)
HeadingLinesOf(ls, n) ==
  IF n = 0 THEN << >>
  ELSE IF HeadingLine(ls[n])
       THEN Append(HeadingLinesOf(ls, n - 1), ls[n])
       ELSE HeadingLinesOf(ls, n - 1)

\* C2: the index lists the headings in document order and its ids are
\* pairwise distinct, whatever the titles and the sequence of levels.
C2_OrderedDistinct ==
  LET hs == HeadingLinesOf(lines, line_no)
  IN  /\ Len(local_index) = Len(hs)
      /\ \A k \in 1..Len(hs) :
           /\ local_index[k].level = DepthOf(hs[k])
           /\ local_index[k].title = Trim(Drop(hs[k], DepthOf(hs[k])))
      /\ \A i, j \in 1..Len(local_index) :
           i # j => local_index[i].id # local_index[j].id

\* a finished index with a repeated title that starts below level 1
C2_Witness ==
  /\ ipc = "done"
  /\ Len(local_index) >= 3
  /\ local_index[1].level > 1
  /\ \E i, j \in 1..Len(local_index) :
       i # j /\ local_index[i].title = local_index[j].title
  /\ \E i \in 2..Len(local_index) :
       local_index[i].level > local_index[i - 1].level + 1

\* ---- C3
HeadingTokens(text) ==
  LET toks == Lex(text)
      RECURSIVE Sel(_)
      Sel(n) == IF n = 0 THEN << >>
                ELSE IF toks[n].type = "heading"
                     THEN Append(Sel(n - 1), toks[n])
                     ELSE Sel(n - 1)
  IN  Sel(Len(toks))

HasTitle(idx, text) == \E i \in 1..Len(idx) : idx[i].title = text

\* C3: every heading node of the parser is emitted with the level and id of
\* the first index record whose title equals the text of the node, and
\* with level 1 and id "1" when no record has that title.
C3_HeadingOverride ==
  ipc = "done" =>
    LET toks == HeadingTokens(markdown)
        els == Headings(html)
    IN  /\ Len(els) = Len(toks)
        /\ \A k \in 1..Len(toks) :
             /\ els[k].text = toks[k].text
             /\ IF HasTitle(local_index, toks[k].text)
                THEN \E i \in 1..Len(local_index) :
                       /\ local_index[i].title = toks[k].text
                       /\ \A j \in 1..(i - 1) :
                            local_index[j].title # toks[k].text
                       /\ els[k].level = local_index[i].level
                       /\ els[k].id = local_index[i].id
                ELSE els[k].level = 1 /\ els[k].id = <<"1">>

\* a render with a node that has no record and a node whose title is the
\* title of two records
C3_Witness ==
  /\ ipc = "done"
  /\ \E k \in 1..Len(Headings(html)) :
       ~HasTitle(local_index, Headings(html)[k].text)
  /\ \E k \in 1..Len(Headings(html)) :
       \E i, j \in 1..Len(local_index) :
         /\ i < j
         /\ local_index[i].title = Headings(html)[k].text
         /\ local_index[j].title = Headings(html)[k].text
         /\ local_index[i].id # local_index[j].id

\* ---- C4
\* C4: within one rendered document no two heading elements have the same
\* id, each carrying the id computed for its own heading.
C4_UniqueElementIds ==
  ipc = "done" =>
    \A i, j \in 1..Len(Headings(html)) :
      i # j => Headings(html)[i].id # Headings(html)[j].id

\* ---- C5
\* component i of an id read as a dotted sequence of integers, 0 when the
\* id has fewer components
Component(id, i) ==
  LET parts == Split(id, ".")
  IN  IF i <= Len(parts) THEN Number(parts[i]) ELSE 0

\* a is not greater than b, component by component from the left
DottedLeq(a, b) ==
  \/ \A i \in 1..6 : Component(a, i) = Component(b, i)
  \/ \E i \in 1..6 :
       /\ Component(a, i) < Component(b, i)
       /\ \A j \in 1..(i - 1) : Component(a, j) = Component(b, j)

\* some target that stays observed got a new report: a delivery happened
Delivered ==
  \E t \in observed : \E u \in observed' : t.el = u.el /\ t.last # u.last

C5_Step ==
  (Delivered /\ visible_entries' # << >>) =>
    /\ \E k \in 1..Len(visible_entries') : visible_entries'[k].id = active_id'
    /\ \A k \in 1..Len(visible_entries') :
         DottedLeq(active_id', visible_entries'[k].id)

\* C5: every delivery that leaves the working set non-empty resolves as
\* active id the id of a member of the working set that no other member
\* precedes in the component-wise numeric order (missing components are
\* 0); of "1.2" and "2" the first is the smaller.
C5_SmallestIsActive ==
  /\ [](CompareIds(Id_1_2, Id_2) = -1 /\ DottedLeq(Id_1_2, Id_2)
        /\ ~DottedLeq(Id_2, Id_1_2))
  /\ [][C5_Step]_vars

\* a resolution over ids of different lengths, the shorter one entered last
C5_Witness ==
  /\ Len(visible_entries) >= 2
  /\ active_id = Id_1
  /\ \E k \in 2..Len(visible_entries) : visible_entries[k].id = Id_1_2
  /\ \E t \in observed : t.id = Id_1_1 /\ t.last = "out"

\* ---- C6
ActiveRecords(idx) == {i \in 1..Len(idx) : idx[i].is_active}

\* C6: after every resolution over a non-empty working set exactly one
\* record of the index is active.
C6_ExactlyOneActive ==
  [][(Delivered /\ visible_entries' # << >>) =>
       Cardinality(ActiveRecords(index')) = 1]_vars

\* ---- C7
\* C7: within one document load the working set holds exactly the heading
\* elements whose most recent report was an enter (an exit removes the
\* element that left and no other).
C7_WorkingSetByElement ==
  (mounted /\ Len(loads) <= 1) =>
    {visible_entries[k].el : k \in 1..Len(visible_entries)}
      = {t.el : t \in {u \in observed : u.last = "in"}}

\* ---- C8
\* C8: the start of a load and the teardown of the view disconnect the
\* observer and empty the working set.
C8_ClearedOnLoad ==
  [][(Len(loads') > Len(loads) \/ (mounted /\ ~mounted')) =>
       (observed' = {} /\ visible_entries' = << >>)]_vars

\* ---- C9
Settled == \A i \in 1..Len(loads) : ~Loading(i)

\* the records of an index without their is_active flags
Plain(idx) ==
  [i \in 1..Len(idx) |->
     [id |-> idx[i].id, level |-> idx[i].level, title |-> idx[i].title]]

\* C9: once every load has settled, the content, the rendered text, the
\* index and err are those of the most recently requested page.
C9_LastRequestWins ==
  (loads # << >> /\ Settled) =>
    LET last == loads[Len(loads)]
        text == Content(last.page)
    IN  IF last.pc = "ok"
        THEN /\ file_content = text
             /\ Plain(index) = Plain(generate_index(text))
             /\ rendered_markdown = marked(text, generate_index(text))
             /\ err = ""
        ELSE /\ file_content = << >>
             /\ rendered_markdown = << >>
             /\ err # ""

\* ---- C10
\* C10: when the fetch of the most recently started load fails, the load
\* ends with err set, is_loading false and nothing rendered.
C10_FailedLoadShowsNothing ==
  [][(loads # << >> /\ loads[Len(loads)].pc = "fetch"
      /\ Len(loads') = Len(loads) /\ loads'[Len(loads)].pc = "failed") =>
       (/\ err' # ""
        /\ ~is_loading'
        /\ rendered_markdown' = << >>
        /\ file_content' = << >>)]_vars

\* ---- C11
\* C11: the start of a load discards the index, the content and the
\* rendered text of the previous document.
C11_DiscardedOnLoad ==
  [][Len(loads') > Len(loads) =>
       (index' = << >> /\ file_content' = << >>
        /\ rendered_markdown' = << >>)]_vars

\* ---- C12
\* load i ends successfully in this step
LoadSucceeds(i) ==
  /\ i <= Len(loads)
  /\ loads[i].pc = "text"
  /\ Len(loads') = Len(loads)
  /\ loads'[i].pc = "ok"

DomEls(elements, tag) ==
  {elements[k].el : k \in {j \in 1..Len(elements) : elements[j].tag = tag}}

C12_Step ==
  \A i \in 1..MaxLoads + 1 :
    (LoadSucceeds(i) /\ mounted /\ file_content' # << >>) =>
      \* the index is the one built from the text of this load
      /\ file_content' = Content(loads[i].page)
      /\ \A k \in 1..Len(index') : ~index'[k].is_active
      /\ Len(index') = Len(HeadingLinesOf(Split(file_content', NL),
                                          Len(Split(file_content', NL))))
      \* the rendered headings carry ids of that index
      /\ \A k \in 1..Len(rendered_markdown') :
           (rendered_markdown'[k].tag = "h"
            /\ HasTitle(index', rendered_markdown'[k].text)) =>
             \E j \in 1..Len(index') :
               /\ index'[j].title = rendered_markdown'[k].text
               /\ index'[j].id = rendered_markdown'[k].id
      \* the elements in the document are those of the rendered text
      /\ markdown_container' = "div"
      /\ Len(dom') = Len(rendered_markdown')
      /\ \A k \in 1..Len(dom') :
           /\ dom'[k].tag = rendered_markdown'[k].tag
           /\ dom'[k].id = rendered_markdown'[k].id
      \* the enhancer has acted on the code blocks of these elements
      /\ \A k \in 1..Len(dom') : dom'[k].tag = "pre" => dom'[k].bars # << >>
      \* the targets the tracker took in this step are headings among them
      /\ \A t \in observed' :
           (\A u \in observed : u.el # t.el) =>
             t.el \in DomEls(dom', "h")
      /\ (markdown_container = "null" /\ has_observer) =>
           {t.el : t \in observed'} = DomEls(dom', "h")

\* C12: in a successful load the index is built first, the text is rendered
\* with that index, the result is put into the document, and the enhancer
\* and the tracker act on elements that are in the document.
C12_PipelineOrder == [][C12_Step]_vars

\* a load of p2 has ended: headings observed and a code block with its bar
C12_Witness ==
  /\ Len(loads) = 1
  /\ loads[1].pc = "ok"
  /\ observed # {}
  /\ \E k \in 1..Len(dom) : dom[k].tag = "pre" /\ dom[k].bars # << >>

\* ---- C13
\* C13: however often enhance_code_blocks has run on the elements in the
\* document, every code block has exactly one header bar.
C13_OneHeaderBar ==
  /\ \A k \in 1..Len(dom) : dom[k].tag = "pre" => Len(dom[k].bars) = 1
  /\ \A k \in 1..Len(dom) :
       LET once == EnhanceBlock(dom[k], << >>)
       IN  dom[k].tag = "pre" => EnhanceBlock(once, << >>) = once

\* two loads of the same page have ended on the same elements: the second
\* call of enhance_code_blocks found the header bars of the first
C13_Witness ==
  /\ Len(loads) = 2
  /\ loads[1].pc = "ok" /\ loads[2].pc = "ok"
  /\ renders = 1
  /\ \E k \in 1..Len(dom) : dom[k].tag = "pre" /\ Len(dom[k].bars) = 1

\* ---- C14
\* C14: a delivery that leaves the working set empty changes no is_active
\* flag.
C14_EmptyKeepsActive ==
  [][(Delivered /\ visible_entries' = << >>) => index' = index]_vars

\* the last intersecting heading has left and its record is still active
C14_Witness ==
  /\ visible_entries = << >>
  /\ ActiveRecords(index) # {}
  /\ \E t \in observed : t.last = "out"

\* ---- C15
\* C15: while a rendered document is attached, the observer observes
\* exactly the heading elements of that document.
C15_ObservesCurrentHeadings ==
  (mounted /\ markdown_container = "div") =>
    {t.el : t \in observed} = DomEls(dom, "h")

\* ---- C16
\* the tracker has delivered a report for a target it observes now
TrackerInitialized == \E t \in observed : t.last # "none"

C16_AtMostOne == Cardinality(ActiveRecords(index)) <= 1

C16_Step ==
  (index' # index /\ ~(Delivered /\ visible_entries' # << >>)) =>
    ActiveRecords(index') = {}

C17_Increasing ==
  \A k \in 1..(Len(local_index) - 1) :
    /\ DottedLeq(local_index[k].id, local_index[k + 1].id)
    /\ ~DottedLeq(local_index[k + 1].id, local_index[k].id)

C17_DeeperZero ==
  local_index # << >> =>
    \A i \in 1..6 :
      i > local_index[Len(local_index)].level => heading_levels[i] = 0

\* C17: the ids of the index increase strictly in document order, compared
\* component by component with missing components as 0, and after a heading
\* the counters of all deeper levels are 0.
C17_StrictlyIncreasing == C17_Increasing /\ C17_DeeperZero

\* a finished index that goes down to level 2, back to level 1 and down
\* again
C17_Witness ==
  /\ ipc = "done"
  /\ Len(local_index) = 4
  /\ [i \in 1..4 |-> local_index[i].level] = <<1, 2, 1, 2>>

\* ---- C18
\* the counter of level j after the first k records, from their levels
\* alone: the records of level j among them that no later shallower record
\* has reset
WalkCounter(idx, k, j) ==
  Cardinality({q \in 1..k :
                 /\ idx[q].level = j
                 /\ \A r \in (q + 1)..k : idx[r].level >= j})

WalkId(idx, k) ==
  JoinStr([j \in 1..idx[k].level |-> NatToStr(WalkCounter(idx, k, j))], ".")

\* C18: the ids derived again from the sequence of levels of the records
\* are the ids stored in the records.
C18_WalkReproducesIds ==
  \A k \in 1..Len(local_index) :
    /\ local_index[k].id = WalkId(local_index, k)
    /\ MapNumber(Split(local_index[k].id, "."))
         = [j \in 1..local_index[k].level |-> WalkCounter(local_index, k, j)]

\* a finished index in which a counter was reset and counted again
C18_Witness ==
  /\ ipc = "done"
  /\ Len(local_index) = 4
  /\ [i \in 1..4 |-> local_index[i].level] = <<2, 1, 2, 2>>
  /\ local_index[4].id = WalkId(local_index, 4)

\* ---- C19
IdParts(k) == MapNumber(Split(local_index[k].id, "."))

\* C19 as stated: every component of every id is a positive integer.
C19_AllPositive ==
  \A k \in 1..Len(local_index) :
    /\ Len(IdParts(k)) = local_index[k].level
    /\ \A i \in 1..Len(IdParts(k)) : IdParts(k)[i] >= 1

\* no heading is more than one level deeper than the one before it, and the
\* first one has level 1
NoLevelSkipped ==
  \A k \in 1..Len(local_index) :
    local_index[k].level
      <= (IF k = 1 THEN 0 ELSE local_index[k - 1].level) + 1

\* C19: every id has one component per level from 1 to the level of the
\* record, each a non-negative integer and the last one at least 1; all
\* components are positive when the first heading has level 1 and no
\* heading is more than one level deeper than the heading before it.
C19_LastPositive ==
  /\ \A k \in 1..Len(local_index) :
       /\ Len(IdParts(k)) = local_index[k].level
       /\ \A i \in 1..Len(IdParts(k)) : IdParts(k)[i] >= 0
       /\ IdParts(k)[local_index[k].level] >= 1
  /\ NoLevelSkipped => C19_AllPositive

\* a finished index whose first heading is below level 1: its id starts
\* with a 0 component
C19_Witness ==
  /\ ipc = "done"
  /\ local_index # << >>
  /\ local_index[1].level = 2
  /\ IdParts(1) = <<0, 1>>

\* ---- C20
C20_Step ==
  /\ Len(loads') # Len(loads) =>
       /\ page' # page
       /\ page' # ""
       /\ loads' = Append(loads, [page |-> page', pc |-> "fetch"])
  /\ (page' # page /\ page' # "") => Len(loads') = Len(loads) + 1

\* C20: a load is started only by a change of the page to a non-empty
\* value, and every such change starts exactly one; the end of a load, in
\* an error or not, starts none.
C20_NoRetry == [][C20_Step]_vars

\* a load has failed, nothing is in flight and no other load was started
C20_Witness ==
  /\ Len(loads) = 1
  /\ loads[1].pc = "failed"
  /\ err # ""
  /\ ~is_loading

\* ---- C21
\* a clipboard write has been rejected in this step
WriteFails == copy_pending' = copy_pending - 1 /\ last_write' = "rejected"

C21_Step ==
  WriteFails =>
    /\ Len(notifications') = Len(notifications) + 1
    /\ SubSeq(notifications', 1, Len(notifications)) = notifications
    /\ notifications'[Len(notifications')].type = "error"
    /\ unhandled' = unhandled
    /\ err' = err
    /\ is_loading' = is_loading
    /\ index' = index
    /\ rendered_markdown' = rendered_markdown
    /\ file_content' = file_content
    /\ dom' = dom

C22_LanguageLabel ==
  (markdown_container = "div" /\ Len(dom) = Len(rendered_markdown)) =>
    \A k \in 1..Len(dom) :
      (dom[k].tag = "pre" /\ rendered_markdown[k].tag = "pre") =>
        dom[k].bars = IF rendered_markdown[k].lang # << >>
                      THEN <<rendered_markdown[k].lang>>
                      ELSE <<PlainText>>

\* ---- C23
C23_Step ==
  (/\ line_no' = line_no + 1
   /\ OpenFence(lines, line_no) > 0
   /\ HeadingLine(lines[line_no + 1])) =>
    LET line == lines[line_no + 1]
        d == DepthOf(line)
        rec == local_index'[Len(local_index')]
    IN  /\ Len(local_index') = Len(local_index) + 1
        /\ rec.level = d
        /\ rec.title = Trim(Drop(line, d))
        /\ heading_levels'[d] = heading_levels[d] + 1
        /\ \A i \in 1..6 :
             /\ i > d => heading_levels'[i] = 0
             /\ i < d => heading_levels'[i] = heading_levels[i]
        /\ MapNumber(Split(rec.id, "."))
             = [i \in 1..d |-> heading_levels'[i]]

\* C23: a heading line inside a code fence gets an index record and
\* advances the counters as the same line outside a fence does.
C23_FencedHeadingIndexed == [][C23_Step]_vars

\* a finished index with a record for a line that the renderer has put
\* into a code block
C23_Witness ==
  /\ ipc = "done"
  /\ \E n \in 1..Len(lines) :
       OpenFence(lines, n - 1) > 0 /\ HeadingLine(lines[n])
  /\ Len(local_index) > Len(Headings(html))
  /\ \E k \in 1..Len(html) : html[k].tag = "pre"

\* ---- C24
\* scroll_to has been called in this step
ScrollCall == scroll_req' # scroll_req \/ scroll_target' # scroll_target

\* the elements of the container that carry the id
Carrying(id) == {k \in 1..Len(dom) : dom[k].id = id}

C24_Step ==
  ScrollCall =>
    /\ IF markdown_container = "div" /\ Carrying(scroll_req') # {}
          /\ has_wrap
       THEN \E k \in Carrying(scroll_req') :
              /\ \A j \in Carrying(scroll_req') : k <= j
              \* the elements above the target are out of view
              /\ scroll_target' = k - 1
       ELSE scroll_target' = scroll_target
    /\ index' = index
    /\ err' = err
    /\ is_loading' = is_loading

\* C24: scroll_to(id) scrolls the wrap to the first element of the
\* container that carries the id when container, element and wrap exist,
\* does nothing when one of them is missing, and never changes index, err
\* or is_loading.
C24_ScrollTo == [][C24_Step]_vars

\* the wrap has been scrolled to the second element of the container
C24_Witness ==
  /\ markdown_container = "div"
  /\ scroll_target = 1
  /\ Carrying(scroll_req) # {}
  /\ \A j \in Carrying(scroll_req) : 2 <= j

\* ---- C25
C25_Step ==
  \A i \in 1..MaxLoads + 1 :
    (LoadSucceeds(i) /\ mounted /\ ~has_observer) =>
      /\ file_content' = Content(loads[i].page)
      /\ Len(index') = Len(HeadingLinesOf(Split(file_content', NL),
                                          Len(Split(file_content', NL))))
      /\ markdown_container' = "div"
      /\ Len(dom') = Len(rendered_markdown')
      /\ dom' # << >>
      /\ \A k \in 1..Len(dom') :
           /\ dom'[k].tag = rendered_markdown'[k].tag
           /\ dom'[k].tag = "pre" => Len(dom'[k].bars) = 1
      /\ err' = err

C25_NoTracker ==
  ~has_observer =>
    /\ observed = {}
    /\ visible_entries = << >>
    /\ \A k \in 1..Len(index) : ~index[k].is_active

\* C25: without IntersectionObserver a load still ends with the index
\* built and the document rendered, attached and enhanced, and no record
\* of the index is ever active.
C25_DegradesWithoutObserver == []C25_NoTracker /\ [][C25_Step]_vars

\* a document is on display on a platform without IntersectionObserver
C25_Witness ==
  /\ ~has_observer
  /\ \E i \in 1..Len(loads) : loads[i].pc = "ok"
  /\ markdown_container = "div"
  /\ index # << >>
  /\ \E k \in 1..Len(dom) : dom[k].tag = "pre" /\ dom[k].bars # << >>

\* ---- C26
\* the measurement lies between the two margins
InBand(o) == o <= OverlapMargin /\ 0 - o <= ClearanceMargin

C26_Step ==
  (resizes' = resizes + 1) =>
    /\ (is_collapsed' /\ ~is_collapsed) => overlap' > OverlapMargin
    /\ (~is_collapsed' /\ is_collapsed) => 0 - overlap' > ClearanceMargin
    /\ InBand(overlap') => is_collapsed' = is_collapsed

\* C26: a recomputation makes is_collapsed true only when the overlap is
\* above the overlap margin, false only when the clearance is above the
\* clearance margin, and keeps it between the two margins.
C26_Hysteresis == [][C26_Step]_vars

\* the panel is collapsed after a measurement between the margins
C26_Witness ==
  /\ resizes >= 2
  /\ is_collapsed
  /\ InBand(overlap)
  /\ overlap < 0

\* ---- C27
\* C27: every change of the colour scheme removes the one stylesheet and
\* inserts one new stylesheet, so that exactly one is in the document.
C27_SwitchSwapsStylesheet ==
  [][prefers_dark' # prefers_dark =>
       (Len(stylesheets') = 1 /\ stylesheets' # stylesheets)]_vars

\* ---- C28
\* C28: is_loading is true exactly while some load has not settled.
C28_LoadingWhileInFlight ==
  is_loading <=> \E i \in 1..Len(loads) : Loading(i)

\* ---- C29
\* the headings in the document are those of the index, one element per
\* record, and no two records have the same title
DocMatched ==
  /\ markdown_container = "div"
  /\ Len(Headings(dom)) = Len(index)
  /\ \A k \in 1..Len(index) : Headings(dom)[k].id = index[k].id
  /\ \A i, j \in 1..Len(index) : i # j => index[i].title # index[j].title

\* the headings of the document whose last report says they intersect
Intersecting(obs) ==
  {t \in obs : t.last = "in" /\ t.el \in DomEls(dom, "h")}

C29_Step ==
  (Delivered /\ DocMatched /\ visible_entries' # << >>) =>
    \E t \in Intersecting(observed') :
      /\ \A u \in Intersecting(observed') : t.el[2] <= u.el[2]
      /\ ActiveRecords(index')
           = {j \in 1..Len(index) : index[j].id = t.id}

\* C29: in a document whose headings have distinct titles and are all
\* matched, every resolution makes active the record of the first
\* intersecting heading in document order.
C29_FirstIntersectingIsActive == [][C29_Step]_vars

\* ---- C30
\* a heading of level j has occurred among the first k records after the
\* last record of a smaller level
SinceShallower(idx, k, j) ==
  \E q \in 1..k :
    /\ idx[q].level = j
    /\ \A r \in (q + 1)..k : idx[r].level >= j

\* C30: every record has a level from 1 to 6, an id of as many numeric
\* components as its level whose last one is at least 1, and is not
\* active; a component is 0 only at a level without a heading since the
\* last heading of a smaller level.
C30_RecordShape ==
  \A k \in 1..Len(local_index) :
    LET rec == local_index[k]
        parts == Split(rec.id, ".")
    IN  /\ rec.level \in 1..6
        /\ Len(parts) = rec.level
        /\ \A i \in 1..Len(parts) :
             /\ parts[i] # << >>
             /\ \A c \in 1..Len(parts[i]) : IsDigit(parts[i][c])
             /\ Number(parts[i]) = 0 => ~SinceShallower(local_index, k, i)
        /\ Number(parts[rec.level]) >= 1
        /\ ~rec.is_active

\* a finished index with an id that has 0 at a level that was skipped
C30_Witness ==
  /\ ipc = "done"
  /\ Len(local_index) >= 2
  /\ local_index[1].level = 1
  /\ local_index[2].level = 6
  /\ MapNumber(Split(local_index[2].id, ".")) = <<1, 0, 0, 0, 0, 1>>

====
